---- MODULE Spec2Model ----
(***************************************************************************)
(* Model of the Pantrifi server's orchestration layer:                     *)
(*   - PantrifiScheduler (scheduler.py): trigger resolution, the polling   *)
(*     loop, run_script_sequence and the daily reschedule;                 *)
(*   - GeminiAPIManager (ai_pipeline_workflow.py): key loading, the        *)
(*     per-key retry loop and the key failover loop;                       *)
(*   - AIPipelineWorkflow.cleanup_user_folder: the removal retry loop;     *)
(*   - AIPipelineWorkflow.run_pipeline with its cleanup executor: the      *)
(*     per-user loop, the cleanup tasks, the await loop and the shutdown;  *)
(*   - the prompts of _get_time_from_user with the 12-hour conversion.     *)
(* Each component has its own specification (SchedSpec, GeminiSpec,        *)
(* CleanupSpec, PipelineSpec, InputSpec; ReportSpec is GeminiSpec followed *)
(* by generate_ai_report and the end of the script); the variables of the  *)
(* other components stay at their initial values.                          *)
(***************************************************************************)
EXTENDS Integers, Sequences, FiniteSets, TLC

VARIABLES
    \* ---- PantrifiScheduler ----
    now,               \* datetime.now(), in seconds since midnight of day 0
    running,           \* self.running
    scheduled_time,    \* the local scheduled_time of start()/run_scheduler_loop
    spc,               \* position of the scheduler's main thread
    cfgHour,           \* hour_24 entered by the user
    cfgMinute,         \* minute entered by the user
    idx,               \* loop variable i of run_script_sequence
    success_count,     \* run_script_sequence: success_count
    scripts_attempted, \* run_script_sequence: scripts_attempted
    stepLog,           \* history: the steps handled in the current cycle
    summary,           \* the execution summary printed by the current cycle
    firstTrigger,      \* history: the trigger returned by _get_time_from_user
    prevTrigger,       \* history: scheduled_time before the last computation
    computedAt,        \* history: now when scheduled_time was last computed
    computeKind,       \* history: "none", "initial" or "resched"
    cyclesRun,         \* history: number of cycles started
    cyclesAfterSignal, \* history: cycles started while self.running was False
    \* ---- GeminiAPIManager ----
    env,               \* which GEMINI_API_KEY variables the environment sets
    api_keys,          \* self.api_keys, as the sequence of variable numbers
    gpc,               \* position of the caller in the manager
    key_index,         \* generate_content: key_index (1-based here)
    attempt,           \* _try_single_key: attempt
    callLog,           \* history: remote calls of the current generate_content
    sleepLog,          \* history: time.sleep calls of the current generate_content
    result,            \* what generate_content returned
    report,            \* what generate_ai_report returned to run_pipeline
    exit_status,       \* exit status of ai_pipeline_workflow.py, -1 while it runs
    \* ---- cleanup_user_folder ----
    cpc,               \* position of the thread in _cleanup_with_retry
    folderExists,      \* path.exists()
    cattempt,          \* _cleanup_with_retry: attempt (0-based as in the code)
    delay,             \* _cleanup_with_retry: delay
    rmLog,             \* history: outcome of each attempt of the current call
    backoffLog,        \* history: time.sleep(delay) calls of the current call
    handleWaits,       \* history: number of time.sleep(0.5) calls
    cleanupResult,     \* what cleanup_user_folder returned
    finished,          \* history: the results of the earlier calls on this thread
    \* ---- AIPipelineWorkflow.run_pipeline and its cleanup executor ----
    ppc,               \* position of the main thread in run_pipeline
    users,             \* len(users)
    ui,                \* loop variable i of `for i, user in enumerate(users, 1)`
    processLog,        \* history: how the try block of each user ended
    cleanup_futures,   \* the local list cleanup_futures, as task numbers
    task,              \* state of each cleanup_task given to the executor
    taskResult,        \* what cleanup_user_folder did inside each cleanup_task
    waited,            \* time spent in the current future.result(timeout=30)
    observed,          \* history: how each future.result call of the await loop ended
    shutdownLog,       \* history: the shutdown calls made on the executor
    folder_path,       \* the folder_path of each user, 0 before it is created
    disk,              \* for each folder, the user whose files it holds, 0 when absent
    \* ---- _get_time_from_user: the prompts ----
    ipc,               \* position in the prompts of _get_time_from_user
    is_12_hour,        \* the parameter is_12_hour
    hour,              \* the answer to the hour prompt
    minute,            \* the answer to the minute prompt
    period,            \* "AM" or "PM", asked in the 12-hour format only
    hour_24            \* the hour handed to now.replace

schedVars == <<now, running, scheduled_time, spc, cfgHour, cfgMinute, idx,
               success_count, scripts_attempted, stepLog, summary, firstTrigger,
               prevTrigger, computedAt, computeKind, cyclesRun, cyclesAfterSignal>>
geminiVars == <<env, api_keys, gpc, key_index, attempt, callLog, sleepLog, result,
                report, exit_status>>
cleanupVars == <<cpc, folderExists, cattempt, delay, rmLog, backoffLog,
                 handleWaits, cleanupResult, finished>>
pipelineVars == <<ppc, users, ui, processLog, cleanup_futures, task, taskResult,
                  waited, observed, shutdownLog, folder_path, disk>>
inputVars == <<ipc, is_12_hour, hour, minute, period, hour_24>>
vars == <<schedVars, geminiVars, cleanupVars, pipelineVars, inputVars>>

(***************************************************************************)
(* Bounds of the model.  The clock is scaled down: a day has HoursPerDay   *)
(* hours of MinPerHour minutes of SecPerMin seconds; the wait of the       *)
(* await loop is observed every TickLen time units.                        *)
(***************************************************************************)
SecPerMin == 2
MinPerHour == 2
HoursPerDay == 2
MaxDays == 3
MaxPollDelay == 2
MaxKeys == 3
MaxCleanupCalls == 3
MaxUsers == 3
TickLen == 30

Day == HoursPerDay * MinPerHour * SecPerMin
MaxTime == MaxDays * Day

\* Python's None where a response or an error could stand
None == [kind |-> "none", text |-> <<>>]

(***************************************************************************)
(*                          PantrifiScheduler                              *)
(***************************************************************************)

\* len(self.script_sequence)
NumSteps == 4

\* time.sleep(5) after a cycle
PostCycleSleep == 5

\* time.sleep(1) between polls
PollSleep == 1

\* the three ways a step fails, and success
StepOutcomes == {"success", "missing", "nonzero", "exception"}

\* how long subprocess.run may take
StepDurations == {0, 1, Day \div 2, Day}

NoSummary == [attempted |-> -1, succeeded |-> -1, failed |-> -1]

ReplaceTimeKeepSeconds(n, h, m) ==
    (n - (n % Day)) + (h * MinPerHour + m) * SecPerMin + (n % SecPerMin)

\* now.replace(hour=hour_24, minute=minute, second=0, microsecond=0)
ReplaceTime(n, h, m) == (n - (n % Day)) + (h * MinPerHour + m) * SecPerMin

ResolveTriggerTomorrow(n, h, m) == ReplaceTime(n, h, m) + Day

ResolveTriggerStrict(n, h, m) ==
    IF ReplaceTime(n, h, m) < n THEN ReplaceTime(n, h, m) + Day
                                ELSE ReplaceTime(n, h, m)

\* scheduled_time = now.replace(...); if scheduled_time <= now: += timedelta(days=1)
ResolveTrigger(n, h, m) ==
    IF ReplaceTime(n, h, m) <= n THEN ReplaceTime(n, h, m) + Day
                                 ELSE ReplaceTime(n, h, m)

NextTriggerFromNow(prev, n) == n + Day

NextTriggerSkipMissed(prev, n) ==
    IF n >= prev + Day THEN prev + Day * (((n - prev) \div Day) + 1)
                       ELSE prev + Day

\* scheduled_time += timedelta(days=1), evaluated when the clock shows n
NextTrigger(prev, n) == prev + Day

TriggerReachedStrict(n, s) == n > s

\* `if now >= scheduled_time`
TriggerReached(n, s) == n >= s

HaltsOnCrashOnly(o) == o \in {"missing", "exception"}

\* the branches of the loop body that end in break
Halts(o) == o \in {"missing", "nonzero", "exception"}

FailedCountSkipped(attempted, succeeded) == NumSteps - succeeded

\* failed_count = scripts_attempted - success_count
FailedCount(attempted, succeeded) == attempted - succeeded

SchedInit ==
    /\ now \in 0..(Day - 1)
    /\ running = TRUE
    /\ scheduled_time = -1
    /\ spc = "input"
    /\ cfgHour = -1
    /\ cfgMinute = -1
    /\ idx = 0
    /\ success_count = 0
    /\ scripts_attempted = 0
    /\ stepLog = <<>>
    /\ summary = NoSummary
    /\ firstTrigger = -1
    /\ prevTrigger = -1
    /\ computedAt = -1
    /\ computeKind = "none"
    /\ cyclesRun = 0
    /\ cyclesAfterSignal = 0

\* signal_handler: self.running = False
SignalHandler ==
    /\ UNCHANGED <<geminiVars, cleanupVars, pipelineVars, inputVars>>
    /\ spc # "stopped"
    /\ running' = FALSE
    /\ UNCHANGED <<now, scheduled_time, spc, cfgHour, cfgMinute, idx, success_count,
                   scripts_attempted, stepLog, summary, firstTrigger, prevTrigger,
                   computedAt, computeKind, cyclesRun, cyclesAfterSignal>>

\* _get_time_from_user, one pass of `while self.running`, then start()'s check
\* `scheduled_time is None or not self.running`
GetTime ==
    /\ UNCHANGED <<geminiVars, cleanupVars, pipelineVars, inputVars>>
    /\ spc = "input"
    /\ IF ~running
       THEN /\ spc' = "stopped"
            /\ UNCHANGED <<scheduled_time, cfgHour, cfgMinute, firstTrigger,
                           prevTrigger, computedAt, computeKind>>
       ELSE \E h \in 0..(HoursPerDay - 1), m \in 0..(MinPerHour - 1) :
            /\ cfgHour' = h
            /\ cfgMinute' = m
            /\ scheduled_time' = ResolveTrigger(now, h, m)
            /\ firstTrigger' = ResolveTrigger(now, h, m)
            /\ prevTrigger' = scheduled_time
            /\ computedAt' = now
            /\ computeKind' = "initial"
            /\ spc' = "loop"
    /\ UNCHANGED <<now, running, idx, success_count, scripts_attempted, stepLog,
                   summary, cyclesRun, cyclesAfterSignal>>

\* run_scheduler_loop: the loop test `while self.running`
Poll ==
    /\ UNCHANGED <<geminiVars, cleanupVars, pipelineVars, inputVars>>
    /\ spc = "loop"
    /\ spc' = IF running THEN "trigtest" ELSE "stopped"
    /\ UNCHANGED <<now, running, scheduled_time, cfgHour, cfgMinute, idx, success_count,
                   scripts_attempted, stepLog, summary, firstTrigger, prevTrigger,
                   computedAt, computeKind, cyclesRun, cyclesAfterSignal>>

\* run_scheduler_loop: now = datetime.now(); `if now >= scheduled_time`, and
\* the first lines of run_script_sequence.  The signal handler may have run
\* since the loop test.
TriggerTest ==
    /\ UNCHANGED <<geminiVars, cleanupVars, pipelineVars, inputVars>>
    /\ spc = "trigtest"
    /\ IF TriggerReached(now, scheduled_time)
       THEN /\ spc' = "cycle"
            /\ idx' = 1
            /\ success_count' = 0
            /\ scripts_attempted' = 0
            /\ stepLog' = <<>>
            /\ summary' = NoSummary
            /\ cyclesRun' = cyclesRun + 1
            /\ cyclesAfterSignal' = IF running THEN cyclesAfterSignal
                                               ELSE cyclesAfterSignal + 1
       ELSE /\ spc' = "flagcheck"
            /\ UNCHANGED <<idx, success_count, scripts_attempted, stepLog, summary,
                           cyclesRun, cyclesAfterSignal>>
    /\ UNCHANGED <<now, running, scheduled_time, cfgHour, cfgMinute, firstTrigger,
                   prevTrigger, computedAt, computeKind>>

\* one iteration of `for i, script_name in enumerate(self.script_sequence, 1)`
RunStep ==
    /\ UNCHANGED <<geminiVars, cleanupVars, pipelineVars, inputVars>>
    /\ spc = "cycle"
    /\ idx <= NumSteps
    /\ \E o \in StepOutcomes, d \in StepDurations :
        /\ now + d <= MaxTime
        /\ scripts_attempted' = idx
        /\ stepLog' = Append(stepLog, [step |-> idx, outcome |-> o])
        /\ now' = IF o = "missing" THEN now ELSE now + d
        /\ success_count' = IF o = "success" THEN success_count + 1 ELSE success_count
        /\ IF Halts(o) \/ idx = NumSteps
           THEN /\ spc' = "summary"
                /\ idx' = idx
           ELSE /\ spc' = "cycle"
                /\ idx' = idx + 1
    /\ UNCHANGED <<running, scheduled_time, cfgHour, cfgMinute, summary, firstTrigger,
                   prevTrigger, computedAt, computeKind, cyclesRun, cyclesAfterSignal>>

SummarizeRaisesOnFailure ==
    /\ UNCHANGED <<geminiVars, cleanupVars, pipelineVars, inputVars>>
    /\ spc = "summary"
    /\ IF scripts_attempted = success_count
       THEN /\ summary' = [attempted |-> scripts_attempted,
                           succeeded |-> success_count,
                           failed |-> 0]
            /\ spc' = "resched"
       ELSE /\ spc' = "stopped"
            /\ UNCHANGED summary
    /\ UNCHANGED <<now, running, scheduled_time, cfgHour, cfgMinute, idx, success_count,
                   scripts_attempted, stepLog, firstTrigger, prevTrigger, computedAt,
                   computeKind, cyclesRun, cyclesAfterSignal>>

\* run_script_sequence after the loop: the execution summary
Summarize ==
    /\ UNCHANGED <<geminiVars, cleanupVars, pipelineVars, inputVars>>
    /\ spc = "summary"
    /\ summary' = [attempted |-> scripts_attempted,
                   succeeded |-> success_count,
                   failed |-> FailedCount(scripts_attempted, success_count)]
    /\ spc' = "resched"
    /\ UNCHANGED <<now, running, scheduled_time, cfgHour, cfgMinute, idx, success_count,
                   scripts_attempted, stepLog, firstTrigger, prevTrigger, computedAt,
                   computeKind, cyclesRun, cyclesAfterSignal>>

\* run_scheduler_loop: scheduled_time += timedelta(days=1)
Reschedule ==
    /\ UNCHANGED <<geminiVars, cleanupVars, pipelineVars, inputVars>>
    /\ spc = "resched"
    /\ scheduled_time' = NextTrigger(scheduled_time, now)
    /\ prevTrigger' = scheduled_time
    /\ computedAt' = now
    /\ computeKind' = "resched"
    /\ spc' = "postsleep"
    /\ UNCHANGED <<now, running, cfgHour, cfgMinute, idx, success_count,
                   scripts_attempted, stepLog, summary, firstTrigger, cyclesRun, cyclesAfterSignal>>

\* run_scheduler_loop: time.sleep(5); live.start()
PostCycle ==
    /\ UNCHANGED <<geminiVars, cleanupVars, pipelineVars, inputVars>>
    /\ spc = "postsleep"
    /\ now + PostCycleSleep <= MaxTime
    /\ now' = now + PostCycleSleep
    /\ spc' = "flagcheck"
    /\ UNCHANGED <<running, scheduled_time, cfgHour, cfgMinute, idx, success_count,
                   scripts_attempted, stepLog, summary, firstTrigger, prevTrigger,
                   computedAt, computeKind, cyclesRun, cyclesAfterSignal>>

\* run_scheduler_loop: `if not self.running: break`
FlagCheck ==
    /\ UNCHANGED <<geminiVars, cleanupVars, pipelineVars, inputVars>>
    /\ spc = "flagcheck"
    /\ spc' = IF running THEN "pollsleep" ELSE "stopped"
    /\ UNCHANGED <<now, running, scheduled_time, cfgHour, cfgMinute, idx, success_count,
                   scripts_attempted, stepLog, summary, firstTrigger, prevTrigger,
                   computedAt, computeKind, cyclesRun, cyclesAfterSignal>>

\* run_scheduler_loop: live.update(...); time.sleep(1)
PollWait ==
    /\ UNCHANGED <<geminiVars, cleanupVars, pipelineVars, inputVars>>
    /\ spc = "pollsleep"
    /\ \E d \in PollSleep..MaxPollDelay :
        /\ now + d <= MaxTime
        /\ now' = now + d
    /\ spc' = "loop"
    /\ UNCHANGED <<running, scheduled_time, cfgHour, cfgMinute, idx, success_count,
                   scripts_attempted, stepLog, summary, firstTrigger, prevTrigger,
                   computedAt, computeKind, cyclesRun, cyclesAfterSignal>>

(***************************************************************************)
(*                           GeminiAPIManager                              *)
(***************************************************************************)

\* self.max_retries_per_key = 3
MaxRetriesPerKey == 3

\* self.retry_delay = 2
RetryDelay == 2

\* time.sleep(1) after an error that is not a rate limit
OtherErrorDelay == 1

\* str(error) of the exceptions the remote call raises, as character sequences
Msg429 == <<"E", "r", "r", " ", "4", "2", "9">>
MsgExhausted == <<"R", "E", "S", "O", "U", "R", "C", "E", "_",
                  "E", "X", "H", "A", "U", "S", "T", "E", "D">>
MsgOther == <<"E", "r", "r", " ", "5", "0", "3">>
ErrorMessages == {Msg429, MsgExhausted, MsgOther}

\* the exception a remote call raises, with its str(error)
Raised(msg) == [kind |-> "error", text |-> msg]

TextResponse == [kind |-> "response", text |-> <<"o", "k">>]
EmptyResponse == [kind |-> "response", text |-> <<>>]

\* the responses client.models.generate_content returns: response objects, one
\* of them with an empty text; the call never returns None
Responses == {TextResponse, EmptyResponse}

\* how a remote call ends
CallOutcomes == Responses \cup {Raised(m) : m \in ErrorMessages}

\* Python's `sub in s` on strings
Contains(s, sub) ==
    \E i \in 0..(Len(s) - Len(sub)) :
        \A j \in 1..Len(sub) : s[i + j] = sub[j]

\* "429" in error_message or "RESOURCE_EXHAUSTED" in error_message
IsRateLimit(msg) ==
    \/ Contains(msg, <<"4", "2", "9">>)
    \/ Contains(msg, MsgExhausted)

WaitTimeFlat(msg, a) ==
    IF IsRateLimit(msg) THEN RetryDelay ELSE OtherErrorDelay

\* wait_time = self.retry_delay * attempt, or the short delay of 1
WaitTime(msg, a) ==
    IF IsRateLimit(msg) THEN RetryDelay * a ELSE OtherErrorDelay

\* `if attempt < self.max_retries_per_key` around the sleeps
SleepsBeforeRetry(a) == a < MaxRetriesPerKey

LastAttemptSecond(a) == a >= MaxRetriesPerKey - 1

LastAttemptFourth(a) == a >= MaxRetriesPerKey + 1

\* the end of `for attempt in range(1, self.max_retries_per_key + 1)`
LastAttempt(a) == a >= MaxRetriesPerKey

KeySucceededIfText(r) == r # None /\ r.text # <<>>

\* generate_content: `if result is not None`
KeySucceeded(r) == r # None

HasNextKeySkipLast(k, n) == k < n - 1

\* the end of `for key_index in range(len(self.api_keys))`
HasNextKey(k, n) == k < n

RECURSIVE LoadFrom(_, _)
\* _load_api_keys: append GEMINI_API_KEY, GEMINI_API_KEY_2, ... up to the first
\* variable that is unset or empty
LoadFrom(e, i) ==
    IF i \in e THEN <<i>> \o LoadFrom(e, i + 1) ELSE <<>>

LoadApiKeys(e) == LoadFrom(e, 1)

ConstructionAlwaysPasses(keys) == FALSE

\* __init__: `if not self.api_keys: raise ValueError(...)`
ConstructionFails(keys) == Len(keys) = 0

GeminiIdle ==
    /\ env = {}
    /\ api_keys = <<>>
    /\ gpc = "unbuilt"
    /\ key_index = 0
    /\ attempt = 0
    /\ callLog = <<>>
    /\ sleepLog = <<>>
    /\ result = None
    /\ report = "none"
    /\ exit_status = -1

GeminiInit ==
    /\ env \in SUBSET (1..MaxKeys)
    /\ api_keys = <<>>
    /\ gpc = "unbuilt"
    /\ key_index = 0
    /\ attempt = 0
    /\ callLog = <<>>
    /\ sleepLog = <<>>
    /\ result = None
    /\ report = "none"
    /\ exit_status = -1

\* GeminiAPIManager.__init__
Construct ==
    /\ gpc = "unbuilt"
    /\ api_keys' = LoadApiKeys(env)
    /\ gpc' = IF ConstructionFails(LoadApiKeys(env)) THEN "ctor_error" ELSE "ready"
    /\ UNCHANGED <<env, key_index, attempt, callLog, sleepLog, result, report, exit_status>>
    /\ UNCHANGED <<schedVars, cleanupVars, pipelineVars, inputVars>>

\* generate_content up to the first remote call: the key loop starts, or ends
\* at once when there is no key
GenerateContent ==
    /\ gpc = "ready"
    /\ IF HasNextKey(0, Len(api_keys))
       THEN /\ gpc' = "call"
            /\ key_index' = 1
            /\ attempt' = 1
       ELSE /\ gpc' = "raised"
            /\ UNCHANGED <<key_index, attempt>>
    /\ UNCHANGED <<env, api_keys, callLog, sleepLog, result, report, exit_status>>
    /\ UNCHANGED <<schedVars, cleanupVars, pipelineVars, inputVars>>

\* what generate_content does once _try_single_key has returned r
AfterKey(r) ==
    IF KeySucceeded(r)
    THEN /\ gpc' = "returned"
         /\ result' = r
         /\ UNCHANGED <<key_index, attempt>>
    ELSE IF HasNextKey(key_index, Len(api_keys))
    THEN /\ gpc' = "call"
         /\ key_index' = key_index + 1
         /\ attempt' = 1
         /\ UNCHANGED result
    ELSE /\ gpc' = "raised"
         /\ UNCHANGED <<key_index, attempt, result>>

\* one pass of the attempt loop of _try_single_key: the remote call, then the
\* return of the response, or the except branch with its sleep; when the loop
\* ends, generate_content's handling of the returned value
RemoteCall ==
    /\ gpc = "call"
    /\ \E o \in CallOutcomes :
        /\ callLog' = Append(callLog, [key |-> key_index,
                                       cred |-> api_keys[key_index],
                                       attempt |-> attempt,
                                       out |-> o])
        /\ IF o \in Responses
           THEN /\ AfterKey(o)
                /\ UNCHANGED sleepLog
           ELSE /\ sleepLog' =
                      IF SleepsBeforeRetry(attempt)
                      THEN Append(sleepLog, [after |-> Len(callLog) + 1,
                                             dur |-> WaitTime(o.text, attempt)])
                      ELSE sleepLog
                /\ IF LastAttempt(attempt)
                   THEN AfterKey(None)
                   ELSE /\ attempt' = attempt + 1
                        /\ UNCHANGED <<gpc, key_index, result>>
    /\ UNCHANGED <<env, api_keys, report, exit_status>>
    /\ UNCHANGED <<schedVars, cleanupVars, pipelineVars, inputVars>>

\* generate_ai_report around its generate_content call: the response text is
\* parsed or repaired into the analysis, or replaced by the fallback
\* structure when it is no JSON; an exception of generate_content is caught
\* by the outer `except Exception` and an error report is returned
GenerateAiReport ==
    /\ gpc \in {"returned", "raised"}
    /\ report = "none"
    /\ IF gpc = "raised"
       THEN report' = "error_report"
       ELSE report' \in {"analysis", "fallback"}
    /\ UNCHANGED <<env, api_keys, gpc, key_index, attempt, callLog, sleepLog, result,
                   exit_status>>
    /\ UNCHANGED <<schedVars, cleanupVars, pipelineVars, inputVars>>

\* the end of the script: run_pipeline went on with the report it got, or
\* main() caught the ValueError of the constructor and printed it; main()
\* returns and the interpreter exits with status 0
StepExit ==
    /\ exit_status = -1
    /\ \/ report # "none"
       \/ gpc = "ctor_error"
    /\ exit_status' = 0
    /\ UNCHANGED <<env, api_keys, gpc, key_index, attempt, callLog, sleepLog, result,
                   report>>
    /\ UNCHANGED <<schedVars, cleanupVars, pipelineVars, inputVars>>

(***************************************************************************)
(*                         cleanup_user_folder                             *)
(***************************************************************************)

\* _cleanup_with_retry(path, max_retries=3, delay=1)
CleanupMaxRetries == 3
InitialDelay == 1

\* how one pass of the retry loop ends: the folder is absent, shutil.rmtree
\* removed it, raised PermissionError, or raised another exception
RemovalOutcomes == {"removed", "PermissionError", "OtherError"}

NextDelaySame(d) == d

\* delay *= 2
NextDelay(d) == d * 2

\* `if attempt < max_retries - 1` in the PermissionError branch
BacksOff(a) == a < CleanupMaxRetries - 1

ReturnsTrueWhenGone(o) == o \in {"removed", "absent"}

\* `return True` stands after shutil.rmtree inside `if path.exists()`
ReturnsTrue(o) == o = "removed"

LastCleanupAttemptFourth(a) == a >= CleanupMaxRetries

\* the end of `for attempt in range(max_retries)`
LastCleanupAttempt(a) == a >= CleanupMaxRetries - 1

CleanupIdle ==
    /\ cpc = "idle"
    /\ folderExists = FALSE
    /\ cattempt = 0
    /\ delay = 0
    /\ rmLog = <<>>
    /\ backoffLog = <<>>
    /\ handleWaits = 0
    /\ cleanupResult = "pending"
    /\ finished = <<>>

\* cleanup_task on a worker thread of the cleanup executor takes its next
\* task: cleanup_user_folder calls _cleanup_with_retry(folder_path); the
\* folder of the task exists or was already removed
CleanupUserFolder ==
    /\ cpc \in {"idle", "done"}
    /\ Len(finished) + (IF cpc = "done" THEN 1 ELSE 0) < MaxCleanupCalls
    /\ finished' = IF cpc = "done" THEN Append(finished, cleanupResult) ELSE finished
    /\ cpc' = "attempt"
    /\ cattempt' = 0
    /\ delay' = InitialDelay
    /\ folderExists' \in BOOLEAN
    /\ rmLog' = <<>>
    /\ backoffLog' = <<>>
    /\ handleWaits' = 0
    /\ cleanupResult' = "pending"
    /\ UNCHANGED <<schedVars, geminiVars, pipelineVars, inputVars>>

\* the loop goes to its next pass, or ends with `return False`
NextCleanupAttempt ==
    IF LastCleanupAttempt(cattempt)
    THEN /\ cpc' = "done"
         /\ cleanupResult' = "False"
         /\ UNCHANGED cattempt
    ELSE /\ cpc' = "attempt"
         /\ cattempt' = cattempt + 1
         /\ UNCHANGED cleanupResult

\* one pass of `for attempt in range(max_retries)`
CleanupAttempt ==
    /\ cpc = "attempt"
    /\ IF ~folderExists
       THEN /\ rmLog' = Append(rmLog, "absent")
            /\ IF ReturnsTrue("absent")
               THEN /\ cpc' = "done"
                    /\ cleanupResult' = "True"
                    /\ UNCHANGED cattempt
               ELSE NextCleanupAttempt
            /\ UNCHANGED <<folderExists, delay, backoffLog, handleWaits>>
       ELSE /\ handleWaits' = handleWaits + 1
            /\ \E o \in RemovalOutcomes :
                /\ rmLog' = Append(rmLog, o)
                /\ CASE ReturnsTrue(o) ->
                          /\ folderExists' = FALSE
                          /\ cpc' = "done"
                          /\ cleanupResult' = "True"
                          /\ UNCHANGED <<cattempt, delay, backoffLog>>
                     [] o = "PermissionError" ->
                          /\ IF BacksOff(cattempt)
                             THEN /\ backoffLog' = Append(backoffLog, delay)
                                  /\ delay' = NextDelay(delay)
                             ELSE UNCHANGED <<backoffLog, delay>>
                          /\ NextCleanupAttempt
                          /\ UNCHANGED folderExists
                     [] o = "OtherError" ->
                          /\ cpc' = "done"
                          /\ cleanupResult' = "False"
                          /\ UNCHANGED <<folderExists, cattempt, delay, backoffLog>>
    /\ UNCHANGED finished
    /\ UNCHANGED <<schedVars, geminiVars, pipelineVars, inputVars>>

\* create_user_folder of a user with the same folder name, on the main
\* thread: the folder exists afterwards
FolderCreated ==
    /\ cpc = "attempt"
    /\ ~folderExists
    /\ folderExists' = TRUE
    /\ UNCHANGED <<cpc, cattempt, delay, rmLog, backoffLog, handleWaits, cleanupResult,
                   finished>>
    /\ UNCHANGED <<schedVars, geminiVars, pipelineVars, inputVars>>

\* the folder is removed by somebody else (the cleanup task of a user with
\* the same folder name) while this call is between two passes
FolderRemovedElsewhere ==
    /\ cpc = "attempt"
    /\ folderExists
    /\ folderExists' = FALSE
    /\ UNCHANGED <<cpc, cattempt, delay, rmLog, backoffLog, handleWaits, cleanupResult,
                   finished>>
    /\ UNCHANGED <<schedVars, geminiVars, pipelineVars, inputVars>>

(***************************************************************************)
(*              run_pipeline and the cleanup executor                      *)
(***************************************************************************)

\* ThreadPoolExecutor(max_workers=2, thread_name_prefix="cleanup")
PoolSize == 2

\* future.result(timeout=30)
PerTaskTimeout == 30

\* a cleanup_task: not submitted, in the executor's work queue, in
\* time.sleep(1), inside cleanup_user_folder, returned, or inside
\* cleanup_user_folder in a removal that never returns
TaskStates == {"none", "queued", "settle", "teardown", "done", "stuck"}

\* what cleanup_user_folder did inside cleanup_task: returned True, returned
\* False, or raised an exception that cleanup_task caught and printed
TeardownResults == {"True", "False", "raised"}

\* a task that holds one of the executor's worker threads
OnWorker(s) == s \in {"settle", "teardown", "stuck"}

RunningTasks(tk) == Cardinality({k \in 1..MaxUsers : OnWorker(tk[k])})

WorkerFreeAlways(n) == TRUE

\* the executor starts a queued task only on one of its max_workers threads
WorkerFree(n) == n < PoolSize

\* future.result(timeout=30) raises TimeoutError once the timeout has elapsed
TimedOut(w) == w >= PerTaskTimeout

\* the folders that the sanitized user names of a run can give,
\* self.workspace_path / clean_name, numbered in the order of their first use
FolderNames == {1, 2}

\* the folders used so far in the run
FoldersUsed(fp) == {fp[k] : k \in 1..MaxUsers} \ {0}

\* the sanitized name of a user is that of an earlier user or a new one
NameChoices(fp) == {f \in FolderNames : f <= Cardinality(FoldersUsed(fp)) + 1}

\* the user whose try block is running, 0 when none is
UserInProcess == IF ppc = "process" THEN ui ELSE 0

\* the future handed to future.result() by the await loop
AwaitedTask == cleanup_futures[Len(observed) + 1]

\* AIPipelineWorkflow.__init__: the executor exists and has no task
PipelineInit ==
    /\ ppc = "load"
    /\ users = 0
    /\ ui = 0
    /\ processLog = <<>>
    /\ cleanup_futures = <<>>
    /\ task = [k \in 1..MaxUsers |-> "none"]
    /\ taskResult = [k \in 1..MaxUsers |-> "pending"]
    /\ waited = 0
    /\ observed = <<>>
    /\ shutdownLog = <<>>
    /\ folder_path = [k \in 1..MaxUsers |-> 0]
    /\ disk = [f \in FolderNames |-> 0]

\* users = self.load_filtered_users(); `if not users: return`;
\* cleanup_futures = []
LoadUsers ==
    /\ UNCHANGED <<schedVars, geminiVars, cleanupVars, inputVars>>
    /\ UNCHANGED <<folder_path, disk>>
    /\ ppc = "load"
    /\ \E n \in 0..MaxUsers :
        /\ users' = n
        /\ IF n = 0
           THEN /\ ppc' = "returned"
                /\ UNCHANGED ui
           ELSE /\ ppc' = "user"
                /\ ui' = 1
    /\ UNCHANGED <<processLog, cleanup_futures, task, taskResult, waited, observed,
                   shutdownLog>>

\* the statements of the loop body before the try block: user.get(...) and
\* folder_path = self.create_user_folder(user_name), which removes a folder
\* found under the sanitized name, makes the folder and returns its path, or
\* raises (a user entry without a usable name, shutil.rmtree or mkdir
\* failing)
CreateUserFolder ==
    /\ UNCHANGED <<schedVars, geminiVars, cleanupVars, inputVars>>
    /\ ppc = "user"
    /\ \/ \E f \in NameChoices(folder_path) :
            /\ folder_path' = [folder_path EXCEPT ![ui] = f]
            /\ disk' = [disk EXCEPT ![f] = ui]
            /\ ppc' = "process"
       \/ /\ ppc' = "raised"
          /\ UNCHANGED <<folder_path, disk>>
    /\ UNCHANGED <<users, ui, processLog, cleanup_futures, task, taskResult, waited,
                   observed, shutdownLog>>

ProcessUserErrorEscapes ==
    /\ UNCHANGED <<schedVars, geminiVars, cleanupVars, inputVars>>
    /\ UNCHANGED <<folder_path, disk>>
    /\ ppc = "process"
    /\ \E o \in {"ok", "error"} :
        /\ processLog' = Append(processLog, o)
        /\ ppc' = IF o = "ok" THEN "submit" ELSE "raised"
    /\ UNCHANGED <<users, ui, cleanup_futures, task, taskResult, waited, observed,
                   shutdownLog>>

\* the try block of the loop body with its `except Exception` handler
ProcessUser ==
    /\ UNCHANGED <<schedVars, geminiVars, cleanupVars, inputVars>>
    /\ UNCHANGED <<folder_path, disk>>
    /\ ppc = "process"
    /\ \E o \in {"ok", "error"} : processLog' = Append(processLog, o)
    /\ ppc' = "submit"
    /\ UNCHANGED <<users, ui, cleanup_futures, task, taskResult, waited, observed,
                   shutdownLog>>

\* the finally block: cleanup_user_folder_threaded submits cleanup_task and
\* returns the future, which is appended to cleanup_futures; then the next
\* pass of the loop, or the await loop
SubmitCleanup ==
    /\ UNCHANGED <<schedVars, geminiVars, cleanupVars, inputVars>>
    /\ UNCHANGED <<folder_path, disk>>
    /\ ppc = "submit"
    /\ task' = [task EXCEPT ![ui] = "queued"]
    /\ cleanup_futures' = Append(cleanup_futures, ui)
    /\ IF ui < users
       THEN /\ ui' = ui + 1
            /\ ppc' = "user"
       ELSE /\ ppc' = "await"
            /\ UNCHANGED ui
    /\ UNCHANGED <<users, processLog, taskResult, waited, observed, shutdownLog>>

\* a worker thread of the executor takes the oldest task of the work queue
\* and enters cleanup_task: time.sleep(1)
WorkerStart ==
    /\ UNCHANGED <<schedVars, geminiVars, cleanupVars, inputVars>>
    /\ UNCHANGED <<folder_path, disk>>
    /\ \E k \in 1..MaxUsers :
        /\ task[k] = "queued"
        /\ \A j \in 1..(k - 1) : task[j] # "queued"
        /\ WorkerFree(RunningTasks(task))
        /\ task' = [task EXCEPT ![k] = "settle"]
    /\ UNCHANGED <<ppc, users, ui, processLog, cleanup_futures, taskResult, waited,
                   observed, shutdownLog>>

\* cleanup_task after the settle delay: self.cleanup_user_folder(folder_path)
WorkerTeardown ==
    /\ UNCHANGED <<schedVars, geminiVars, cleanupVars, inputVars>>
    /\ UNCHANGED <<folder_path, disk>>
    /\ \E k \in 1..MaxUsers :
        /\ task[k] = "settle"
        /\ task' = [task EXCEPT ![k] = "teardown"]
    /\ UNCHANGED <<ppc, users, ui, processLog, cleanup_futures, taskResult, waited,
                   observed, shutdownLog>>

\* cleanup_user_folder returns True after removing whatever folder stands
\* at its path, or returns False, or raises and cleanup_task prints the
\* exception; cleanup_task returns and the future is done
WorkerFinish ==
    /\ UNCHANGED <<schedVars, geminiVars, cleanupVars, inputVars>>
    /\ \E k \in 1..MaxUsers :
        /\ task[k] = "teardown"
        /\ \E r \in TeardownResults :
            /\ taskResult' = [taskResult EXCEPT ![k] = r]
            /\ IF r = "True"
               THEN /\ disk[folder_path[k]] # 0
                    /\ disk' = [disk EXCEPT ![folder_path[k]] = 0]
               ELSE UNCHANGED disk
        /\ task' = [task EXCEPT ![k] = "done"]
    /\ UNCHANGED folder_path
    /\ UNCHANGED <<ppc, users, ui, processLog, cleanup_futures, waited, observed,
                   shutdownLog>>

\* shutil.rmtree inside cleanup_user_folder blocks in the file system and
\* never returns
WorkerStuck ==
    /\ UNCHANGED <<schedVars, geminiVars, cleanupVars, inputVars>>
    /\ UNCHANGED <<folder_path, disk>>
    /\ \E k \in 1..MaxUsers :
        /\ task[k] = "teardown"
        /\ task' = [task EXCEPT ![k] = "stuck"]
    /\ UNCHANGED <<ppc, users, ui, processLog, cleanup_futures, taskResult, waited,
                   observed, shutdownLog>>

\* the main thread is blocked in future.result(timeout=30) while the future
\* is not done: TickLen time units pass
AwaitTick ==
    /\ UNCHANGED <<schedVars, geminiVars, cleanupVars, inputVars>>
    /\ UNCHANGED <<folder_path, disk>>
    /\ ppc = "await"
    /\ task[AwaitedTask] # "done"
    /\ ~TimedOut(waited)
    /\ waited' = waited + TickLen
    /\ UNCHANGED <<ppc, users, ui, processLog, cleanup_futures, task, taskResult,
                   observed, shutdownLog>>

\* future.result(timeout=30) returns because the future is done, or raises
\* TimeoutError, which the await loop catches and prints as a warning; then
\* the next future, or the end of the await loop
AwaitResult ==
    /\ UNCHANGED <<schedVars, geminiVars, cleanupVars, inputVars>>
    /\ UNCHANGED <<folder_path, disk>>
    /\ ppc = "await"
    /\ \/ task[AwaitedTask] = "done"
       \/ TimedOut(waited)
    /\ observed' = Append(observed, IF task[AwaitedTask] = "done"
                                    THEN "completed" ELSE "timeout")
    /\ waited' = 0
    /\ ppc' = IF Len(observed) + 1 = Len(cleanup_futures) THEN "shutdown" ELSE "await"
    /\ UNCHANGED <<users, ui, processLog, cleanup_futures, task, taskResult, shutdownLog>>

\* self.cleanup_executor.shutdown(wait=True): returns once every worker
\* thread has ended, that is once no submitted task is unfinished; then the
\* last prints of run_pipeline
ShutdownGraceful ==
    /\ UNCHANGED <<schedVars, geminiVars, cleanupVars, inputVars>>
    /\ UNCHANGED <<folder_path, disk>>
    /\ ppc = "shutdown"
    /\ \A k \in 1..MaxUsers : task[k] \in {"none", "done"}
    /\ shutdownLog' = Append(shutdownLog, "graceful")
    /\ ppc' = "completed"
    /\ UNCHANGED <<users, ui, processLog, cleanup_futures, task, taskResult, waited,
                   observed>>

\* __del__, once run_pipeline has returned or raised and main() drops the
\* object: self.cleanup_executor.shutdown(wait=False)
Destructor ==
    /\ UNCHANGED <<schedVars, geminiVars, cleanupVars, inputVars>>
    /\ UNCHANGED <<folder_path, disk>>
    /\ ppc \in {"completed", "returned", "raised"}
    /\ ppc' = "destroyed"
    /\ shutdownLog' = Append(shutdownLog, "immediate")
    /\ UNCHANGED <<users, ui, processLog, cleanup_futures, task, taskResult, waited,
                   observed>>

(***************************************************************************)
(*                 _get_time_from_user: the prompts                        *)
(***************************************************************************)

To24HourKeepTwelve(h, p) ==
    IF p = "PM" /\ h # 12 THEN h + 12 ELSE h

\* if period == "AM" and hour == 12: hour_24 = 0
\* elif period == "PM" and hour != 12: hour_24 = hour + 12
\* else: hour_24 = hour
To24Hour(h, p) ==
    IF p = "AM" /\ h = 12 THEN 0
    ELSE IF p = "PM" /\ h # 12 THEN h + 12
    ELSE h

\* choices of the hour prompt: range(1, 13) or range(0, 24)
HourChoices(twelve) == IF twelve THEN 1..12 ELSE 0..23

\* choices of the minute prompt: range(0, 60)
MinuteChoices == 0..59

InputIdle ==
    /\ ipc = "hour"
    /\ is_12_hour = FALSE
    /\ hour = -1
    /\ minute = -1
    /\ period = "none"
    /\ hour_24 = -1

\* _get_12_hour_time or _get_24_hour_time has called _get_time_from_user
InputInit ==
    /\ ipc = "hour"
    /\ is_12_hour \in BOOLEAN
    /\ hour = -1
    /\ minute = -1
    /\ period = "none"
    /\ hour_24 = -1

\* hour = IntPrompt.ask(..., choices=...)
AskHour ==
    /\ UNCHANGED <<schedVars, geminiVars, cleanupVars, pipelineVars>>
    /\ ipc = "hour"
    /\ hour' \in HourChoices(is_12_hour)
    /\ ipc' = "minute"
    /\ UNCHANGED <<is_12_hour, minute, period, hour_24>>

\* minute = IntPrompt.ask(...); hour_24, display_time = hour, ...
AskMinute ==
    /\ UNCHANGED <<schedVars, geminiVars, cleanupVars, pipelineVars>>
    /\ ipc = "minute"
    /\ minute' \in MinuteChoices
    /\ hour_24' = hour
    /\ ipc' = IF is_12_hour THEN "period" ELSE "done"
    /\ UNCHANGED <<is_12_hour, hour, period>>

\* `if is_12_hour`: the period prompt and the conversion of the hour
AskPeriod ==
    /\ UNCHANGED <<schedVars, geminiVars, cleanupVars, pipelineVars>>
    /\ ipc = "period"
    /\ \E pd \in {"AM", "PM"} :
        /\ period' = pd
        /\ hour_24' = To24Hour(hour, pd)
    /\ ipc' = "done"
    /\ UNCHANGED <<is_12_hour, hour, minute>>

(***************************************************************************)
(*                           Specifications                                *)
(***************************************************************************)

SchedSpecInit == SchedInit /\ GeminiIdle /\ CleanupIdle /\ PipelineInit /\ InputIdle

SchedNext ==
    \/ SignalHandler
    \/ GetTime
    \/ Poll
    \/ TriggerTest
    \/ RunStep
    \/ Summarize
    \/ Reschedule
    \/ PostCycle
    \/ FlagCheck
    \/ PollWait

SchedSpec == SchedSpecInit /\ [][SchedNext]_vars

GeminiSpecInit == SchedInit /\ now = 0 /\ GeminiInit /\ CleanupIdle /\ PipelineInit /\ InputIdle

GeminiNext ==
    \/ Construct
    \/ GenerateContent
    \/ RemoteCall

GeminiSpec == GeminiSpecInit /\ [][GeminiNext]_vars

\* the AI pipeline script around its generate_content call
ReportSpecInit == SchedInit /\ now = 0 /\ GeminiInit /\ CleanupIdle /\ PipelineInit /\ InputIdle

ReportNext ==
    \/ Construct
    \/ GenerateContent
    \/ RemoteCall
    \/ GenerateAiReport
    \/ StepExit

ReportSpec == ReportSpecInit /\ [][ReportNext]_vars

CleanupSpecInit == SchedInit /\ now = 0 /\ GeminiIdle /\ CleanupIdle /\ PipelineInit /\ InputIdle

CleanupNext ==
    \/ CleanupUserFolder
    \/ CleanupAttempt
    \/ FolderCreated
    \/ FolderRemovedElsewhere

CleanupSpec == CleanupSpecInit /\ [][CleanupNext]_vars

PipelineSpecInit == SchedInit /\ now = 0 /\ GeminiIdle /\ CleanupIdle /\ PipelineInit /\ InputIdle

PipelineNext ==
    \/ LoadUsers
    \/ CreateUserFolder
    \/ ProcessUser
    \/ SubmitCleanup
    \/ WorkerStart
    \/ WorkerTeardown
    \/ WorkerFinish
    \/ WorkerStuck
    \/ AwaitTick
    \/ AwaitResult
    \/ ShutdownGraceful
    \/ Destructor

PipelineSpec == PipelineSpecInit /\ [][PipelineNext]_vars

InputSpecInit == SchedInit /\ now = 0 /\ GeminiIdle /\ CleanupIdle /\ PipelineInit /\ InputInit

InputNext ==
    \/ AskHour
    \/ AskMinute
    \/ AskPeriod

InputSpec == InputSpecInit /\ [][InputNext]_vars

(***************************************************************************)
(*                        Claims: PantrifiScheduler                        *)
(***************************************************************************)

\* C1: run_script_sequence handles the steps in declared order, each at most
\* once; nothing is handled after the first step that does not succeed; and
\* when step k is the first failure the summary is attempted = k,
\* succeeded = k - 1, failed = 1.
HaltOnFirstFailure ==
    /\ \A j \in 1..Len(stepLog) : stepLog[j].step = j
    /\ \A j \in 1..Len(stepLog) :
          stepLog[j].outcome # "success" => j = Len(stepLog)
    /\ Len(stepLog) <= NumSteps
    /\ summary # NoSummary =>
          \A k \in 1..Len(stepLog) :
              stepLog[k].outcome # "success" =>
                  summary = [attempted |-> k, succeeded |-> k - 1, failed |-> 1]

\* C1 witness: the 4-step sequence whose step 2 exits non-zero, summarised.
HaltOnFirstFailureWitness ==
    /\ Len(stepLog) = 2
    /\ stepLog[1].outcome = "success"
    /\ stepLog[2].outcome = "nonzero"
    /\ summary = [attempted |-> 2, succeeded |-> 1, failed |-> 1]

\* C2: after every cycle the trigger is the previous trigger plus exactly one
\* day, so it is the initial trigger plus one day per finished cycle and its
\* time of day stays the configured hour:minute:00.
ReschedulingLaw ==
    /\ computeKind = "resched" => scheduled_time = prevTrigger + Day
    /\ computeKind # "none" =>
          /\ scheduled_time % Day = (cfgHour * MinPerHour + cfgMinute) * SecPerMin
          /\ scheduled_time =
                firstTrigger
                + Day * (IF spc \in {"cycle", "summary", "resched"}
                         THEN cyclesRun - 1 ELSE cyclesRun)

\* C2 witness: a cycle that halted early and ran for more than a day has been
\* rescheduled.
ReschedulingLawWitness ==
    /\ computeKind = "resched"
    /\ summary # NoSummary
    /\ summary.failed = 1
    /\ computedAt > prevTrigger + Day

\* C3 as stated: whenever a trigger is computed it is strictly later than the
\* clock at that moment, whatever the cycle took.
TriggerAlwaysInFuture ==
    computeKind # "none" => scheduled_time > computedAt

\* C3 amended: the initial trigger is strictly later than the clock; a
\* rescheduled trigger is strictly later than the clock exactly when the
\* cycle ended less than one day after the trigger it served.
TriggerInFutureUnlessOverrun ==
    /\ computeKind = "initial" => scheduled_time > computedAt
    /\ computeKind = "resched" =>
          (scheduled_time > computedAt <=> computedAt < prevTrigger + Day)

\* C3 witness: a reschedule after a cycle that took time but less than a day.
TriggerInFutureWitness ==
    /\ computeKind = "resched"
    /\ computedAt > prevTrigger
    /\ computedAt < prevTrigger + Day
    /\ scheduled_time > computedAt

\* C17: once the signal handler has cleared the running flag no cycle is
\* started any more.  The loop tests the flag on line 285 and starts the cycle
\* on line 291 without testing it again, so a signal handled in between is
\* followed by a whole cycle.
NoCycleAfterSignal ==
    cyclesAfterSignal = 0

\* C18: whatever the steps of a cycle did, run_script_sequence reaches its
\* summary and the loop goes on to the reschedule, the sleep, the flag test
\* and, with the flag still set, the next poll; the loop stops only with the
\* flag cleared.
SchedulerSurvivesFailures ==
    [][/\ spc = "cycle" => spc' \in {"cycle", "summary"}
       /\ (spc = "summary" /\ spc' # "summary") =>
             /\ spc' = "resched"
             /\ summary' # NoSummary
       /\ (spc = "resched" /\ spc' # "resched") => spc' = "postsleep"
       /\ (spc = "postsleep" /\ spc' # "postsleep") => spc' = "flagcheck"
       /\ (spc = "flagcheck" /\ spc' # "flagcheck") =>
             spc' = IF running THEN "pollsleep" ELSE "stopped"
       /\ (spc = "pollsleep" /\ spc' # "pollsleep") => spc' = "loop"
       /\ spc' = "stopped" => ~running'
      ]_vars

\* C18 witness: a cycle whose third step raised while being started is over
\* and the scheduler is polling again.
SchedulerSurvivesFailuresWitness ==
    /\ spc = "pollsleep"
    /\ running
    /\ Len(stepLog) = 3
    /\ stepLog[3].outcome = "exception"
    /\ summary # NoSummary
    /\ computeKind = "resched"

\* C19: every cycle ends with a summary, also one that halted early; in it
\* attempted = succeeded + failed, failed is 0 or 1, failed = 1 exactly when
\* the cycle halted on a step that did not succeed and failed = 0 exactly
\* when all steps of the sequence succeeded.
SummaryCounters ==
    /\ (cyclesRun > 0 /\ spc \notin {"cycle", "summary"}) => summary # NoSummary
    /\ summary # NoSummary =>
          /\ summary.attempted = Len(stepLog)
          /\ summary.attempted = summary.succeeded + summary.failed
          /\ summary.failed \in {0, 1}
          /\ summary.failed = 1 <=> stepLog[Len(stepLog)].outcome # "success"
          /\ summary.failed = 0 <=>
                /\ Len(stepLog) = NumSteps
                /\ \A j \in 1..NumSteps : stepLog[j].outcome = "success"

\* C19 witness: a cycle that halted on its third step, whose script was
\* missing, has printed its summary.
SummaryCountersWitness ==
    /\ Len(stepLog) = 3
    /\ stepLog[3].outcome = "missing"
    /\ summary = [attempted |-> 3, succeeded |-> 2, failed |-> 1]

\* C20: the resolved trigger is today at hour:minute:00 when that instant is
\* still ahead and tomorrow at hour:minute:00 when it has passed or is the
\* current instant; it is the earliest later instant with that time of day
\* and at most one day ahead.
TriggerResolution ==
    computeKind = "initial" =>
        LET tod == (cfgHour * MinPerHour + cfgMinute) * SecPerMin
            today == (computedAt - (computedAt % Day)) + tod
        IN /\ today > computedAt => scheduled_time = today
           /\ today <= computedAt => scheduled_time = today + Day
           /\ scheduled_time > computedAt
           /\ scheduled_time <= computedAt + Day
           /\ \A x \in (computedAt + 1)..(scheduled_time - 1) : x % Day # tod

\* C20 witness: the configured time is the current instant, so the trigger
\* is tomorrow, a full day ahead.
TriggerResolutionWitness ==
    /\ computeKind = "initial"
    /\ computedAt > 0
    /\ scheduled_time = computedAt + Day

\* C21: resolving the configured (hour, minute) at any other instant of the
\* wall-clock minute in which it was resolved gives the same trigger, also
\* when the configured time is that very minute.
TriggerResolutionIdempotent ==
    computeKind = "initial" =>
        \A n2 \in 0..(MaxTime - 1) :
            (n2 \div SecPerMin = computedAt \div SecPerMin)
                => ResolveTrigger(n2, cfgHour, cfgMinute) = scheduled_time

\* C21 witness: the configured time is the current minute and the
\* resolution happened after the minute's first second.
TriggerResolutionIdempotentWitness ==
    /\ computeKind = "initial"
    /\ computedAt % SecPerMin # 0
    /\ (computedAt % Day) \div SecPerMin = cfgHour * MinPerHour + cfgMinute
    /\ scheduled_time = (computedAt - (computedAt % SecPerMin)) + Day

\* C22: a poll starts a cycle exactly when its loop test read the running
\* flag as set and its clock reading is at or after the trigger; a poll
\* before the trigger goes on waiting; a cycle is started by a poll only,
\* and no step runs while the clock is before the trigger.
CycleStartsIffDue ==
    [][/\ (spc = "loop" /\ spc' # "loop") =>
             spc' = IF running THEN "trigtest" ELSE "stopped"
       /\ (spc = "trigtest" /\ spc' # "trigtest") =>
             spc' = IF now >= scheduled_time THEN "cycle" ELSE "flagcheck"
       /\ (spc # "cycle" /\ spc' = "cycle") =>
             /\ spc = "trigtest"
             /\ now >= scheduled_time
             /\ cyclesRun' = cyclesRun + 1
       /\ cyclesRun' # cyclesRun => (spc = "trigtest" /\ spc' = "cycle")
       /\ stepLog' # stepLog /\ stepLog' # <<>> => now >= scheduled_time
       /\ now < scheduled_time => spc' # "cycle"
      ]_vars

\* C22 witness: a poll at the very instant of the trigger has started a
\* cycle.
CycleStartsIffDueWitness ==
    /\ spc = "cycle"
    /\ stepLog = <<>>
    /\ now = scheduled_time
    /\ cyclesRun = 1

\* C26: the trigger in force is the initial trigger plus one day per cycle
\* that has been rescheduled, and a cycle runs only at or after the trigger
\* it serves: the k-th cycle serves firstTrigger + (k - 1) days, whatever
\* the length of the cycles before it.
CyclesMatchTriggers ==
    /\ (computeKind # "none" /\ spc \in {"cycle", "summary", "resched"}) =>
          /\ cyclesRun >= 1
          /\ scheduled_time = firstTrigger + (cyclesRun - 1) * Day
          /\ now >= scheduled_time
    /\ (computeKind # "none" /\ spc \notin {"cycle", "summary", "resched"}) =>
          scheduled_time = firstTrigger + cyclesRun * Day

\* C26 witness: the first cycle ran past the second trigger and the second
\* cycle has started for that trigger.
CyclesMatchTriggersWitness ==
    /\ spc = "cycle"
    /\ cyclesRun = 2
    /\ computeKind = "resched"
    /\ computedAt > scheduled_time
    /\ scheduled_time = firstTrigger + Day

(***************************************************************************)
(*                        Claims: GeminiAPIManager                         *)
(***************************************************************************)

\* the positions in callLog of the calls made with key k
CallsOn(k) == {j \in 1..Len(callLog) : callLog[j].key = k}

\* the calls that raised
FailedCalls == {j \in 1..Len(callLog) : callLog[j].out.kind = "error"}

\* the calls that returned a response
SucceededCalls == {j \in 1..Len(callLog) : callLog[j].out.kind = "response"}

\* C4: when no call on a credential before the last one succeeds, every call
\* on the last credential N comes after exactly 3 calls on each of the
\* credentials 1..N-1, and a response obtained with credential N is what
\* generate_content returns.
OnlyLastKeySucceeds ==
    LET n == Len(api_keys) IN
    (\A j \in SucceededCalls : callLog[j].key = n) =>
        /\ CallsOn(n) # {} =>
              \A k \in 1..(n - 1) :
                  /\ Cardinality(CallsOn(k)) = 3
                  /\ \A i \in CallsOn(k) : \A j \in CallsOn(n) : i < j
        /\ \A j \in SucceededCalls :
              /\ gpc = "returned"
              /\ result = callLog[j].out
              /\ result \in Responses

\* C4 witness: three credentials, the first two failed 3 times each and the
\* third answered.
OnlyLastKeySucceedsWitness ==
    /\ Len(api_keys) = 3
    /\ gpc = "returned"
    /\ Cardinality(CallsOn(1)) = 3
    /\ Cardinality(CallsOn(2)) = 3
    /\ callLog[Len(callLog)].key = 3
    /\ result = callLog[Len(callLog)].out

\* C5: generate_content raises the all-keys-failed error exactly when every
\* attempt on every credential failed: it has then made 3 calls on each of
\* the N credentials, N x 3 in all, none of which returned, and it never ends
\* any other way without a response.
ExhaustedIffAllFailed ==
    LET n == Len(api_keys) IN
    /\ gpc = "raised" =>
          /\ SucceededCalls = {}
          /\ \A k \in 1..n : Cardinality(CallsOn(k)) = 3
          /\ Len(callLog) = n * 3
    /\ (Len(callLog) = n * 3 /\ n > 0 /\ SucceededCalls = {}) => gpc = "raised"
    /\ gpc = "returned" => SucceededCalls # {}

\* C5 witness: two or more credentials, all exhausted.
ExhaustedWitness ==
    /\ gpc = "raised"
    /\ Len(api_keys) >= 2
    /\ Len(callLog) = 3 * Len(api_keys)

\* C6: a remote call that returned a response is the last call, no sleep
\* follows it, and generate_content has returned that very response.
ReturnsOnFirstSuccess ==
    \A j \in SucceededCalls :
        /\ j = Len(callLog)
        /\ gpc = "returned"
        /\ result = callLog[j].out
        /\ \A i \in 1..Len(sleepLog) : sleepLog[i].after < j

\* C6 witness: the second attempt on the second credential returned the
\* response with the empty text.
ReturnsOnFirstSuccessWitness ==
    /\ gpc = "returned"
    /\ result = EmptyResponse
    /\ Len(callLog) = 5
    /\ callLog[5].key = 2
    /\ callLog[5].attempt = 2
    /\ Len(sleepLog) = 3

\* C7: attempts are numbered per credential from 1; a failed attempt a < 3 is
\* followed by exactly one sleep, of 2 * a for a rate-limit error and of 1
\* otherwise; the failed attempt 3 (and a successful call) by none.  (Every
\* sleep follows a failed attempt a < 3 of its own and has that length, and
\* there are as many sleeps as such attempts.)
BackoffSchedule ==
    /\ \A j \in 1..Len(callLog) :
          callLog[j].attempt =
              1 + Cardinality({i \in 1..(j - 1) : callLog[i].key = callLog[j].key})
    /\ \A i \in 1..Len(sleepLog) :
          /\ sleepLog[i].after \in FailedCalls
          /\ i > 1 => sleepLog[i - 1].after < sleepLog[i].after
          /\ LET c == callLog[sleepLog[i].after]
             IN /\ c.attempt < 3
                /\ sleepLog[i].dur = IF c.out.text \in {Msg429, MsgExhausted}
                                     THEN 2 * c.attempt ELSE 1
    /\ Len(sleepLog) = Cardinality({j \in FailedCalls : callLog[j].attempt < 3})

\* C7 witness: on the second credential, a rate-limit error on attempt 1 and
\* on attempt 2 and another error on attempt 3, after a first credential that
\* failed with other errors.
BackoffScheduleWitness ==
    /\ Len(callLog) = 6
    /\ callLog[1].out = Raised(MsgOther)
    /\ callLog[4].out = Raised(Msg429)
    /\ callLog[5].out = Raised(MsgExhausted)
    /\ callLog[6].out = Raised(MsgOther)
    /\ Len(sleepLog) = 4
    /\ sleepLog[1].dur = 1
    /\ sleepLog[3].dur = 2
    /\ sleepLog[4].dur = 4

\* C8: calls go through the credentials in list order: a later call never
\* uses an earlier credential, credential i+1 is called only after 3 failed
\* calls on credential i, and no credential gets more than 3 calls.
KeysInPriorityOrder ==
    /\ \A j \in 1..Len(callLog) :
          /\ callLog[j].key \in 1..Len(api_keys)
          /\ callLog[j].cred = api_keys[callLog[j].key]
          /\ j = 1 => callLog[j].key = 1
          /\ j > 1 => callLog[j - 1].key <= callLog[j].key
          /\ (j > 1 /\ callLog[j - 1].key # callLog[j].key) =>
                /\ callLog[j].key = callLog[j - 1].key + 1
                /\ Cardinality({i \in 1..(j - 1) :
                                   /\ callLog[i].key = callLog[j].key - 1
                                   /\ callLog[i].out.kind = "error"}) = 3
    /\ \A k \in 1..Len(api_keys) : Cardinality(CallsOn(k)) <= 3

\* C8 witness: the client is on the third credential.
KeysInPriorityOrderWitness ==
    /\ Len(callLog) = 8
    /\ callLog[8].key = 3
    /\ callLog[8].attempt = 2
    /\ gpc = "call"

\* C9: construction fails exactly when no credential is loaded, and
\* generate_content only ever runs on a manager with at least one credential.
NoClientWithoutCredentials ==
    /\ gpc = "ctor_error" <=> (gpc # "unbuilt" /\ Len(api_keys) = 0)
    /\ gpc \in {"ready", "call", "returned", "raised"} => Len(api_keys) >= 1
    /\ gpc # "unbuilt" => api_keys = LoadApiKeys(env)

\* C9 witness: GEMINI_API_KEY is unset (only GEMINI_API_KEY_2 is set), so no
\* credential is loaded and construction has raised.
NoClientWithoutCredentialsWitness ==
    /\ gpc = "ctor_error"
    /\ env = {2}
    /\ Len(api_keys) = 0

(***************************************************************************)
(*                      Claims: cleanup_user_folder                        *)
(***************************************************************************)

\* C10: a folder that is in use (PermissionError) on the first 2 removal
\* attempts and removed on the 3rd makes cleanup_user_folder return True,
\* after backoff sleeps of 1 and then 2 between the attempts.
CleanupResilience ==
    /\ (Len(rmLog) >= 2 /\ rmLog[1] = "PermissionError" /\ rmLog[2] = "PermissionError")
          => /\ Len(backoffLog) >= 2
             /\ backoffLog[1] = 1
             /\ backoffLog[2] = 2
    /\ rmLog = <<"PermissionError", "PermissionError", "removed">>
          => /\ cpc = "done"
             /\ cleanupResult = "True"
             /\ backoffLog = <<1, 2>>
             /\ ~folderExists

\* C10 witness: two PermissionErrors, then the removal.
CleanupResilienceWitness ==
    /\ rmLog = <<"PermissionError", "PermissionError", "removed">>
    /\ cleanupResult = "True"
    /\ backoffLog = <<1, 2>>

\* C12: a removal that raised PermissionError is followed by another attempt
\* as long as fewer than 3 attempts were made, and there are never more than
\* 3; a removal that raised any other exception is the last attempt of its
\* call, no backoff sleep follows it and the call returns False.
TeardownRetryPolicy ==
    /\ Len(rmLog) <= CleanupMaxRetries
    /\ Len(backoffLog) =
          Cardinality({j \in 1..Len(rmLog) :
                          rmLog[j] = "PermissionError" /\ j < CleanupMaxRetries})
    /\ \A j \in 1..Len(rmLog) :
          /\ rmLog[j] = "OtherError" =>
                /\ j = Len(rmLog)
                /\ cpc = "done"
                /\ cleanupResult = "False"
          /\ (rmLog[j] = "PermissionError" /\ j = Len(rmLog)) =>
                IF j < CleanupMaxRetries
                THEN /\ cpc = "attempt"
                     /\ cattempt = j
                     /\ cleanupResult = "pending"
                ELSE /\ cpc = "done"
                     /\ cleanupResult = "False"

\* C12 witness: a PermissionError was retried after its backoff and the
\* retry ended the call with another exception.
TeardownRetryPolicyWitness ==
    /\ rmLog = <<"PermissionError", "OtherError">>
    /\ backoffLog = <<1>>
    /\ cpc = "done"
    /\ cleanupResult = "False"

\* C23: when generate_content has raised because every key failed, the AI
\* pipeline script does not end with exit status 0.  generate_ai_report
\* catches the exception and returns an error report, and the script ends
\* with status 0.
ExhaustionSurfacedAsFailure ==
    (gpc = "raised" /\ exit_status # -1) => exit_status # 0

\* C28: cleanup_user_folder returns True exactly when a removal of this call
\* succeeded, after at most 3 passes; a call that found the folder absent
\* in every pass made no removal attempt and no backoff sleep and returned
\* False after its third pass.
CleanupReturnValue ==
    /\ Len(rmLog) <= CleanupMaxRetries
    /\ cleanupResult = "True" <=>
          (Len(rmLog) > 0 /\ rmLog[Len(rmLog)] = "removed")
    /\ \A j \in 1..(Len(rmLog) - 1) : rmLog[j] # "removed"
    /\ cpc = "done" => cleanupResult \in {"True", "False"}
    /\ (\A j \in 1..Len(rmLog) : rmLog[j] = "absent") =>
          /\ backoffLog = <<>>
          /\ handleWaits = 0
          /\ cleanupResult # "True"
          /\ cpc = "done" =>
                /\ Len(rmLog) = CleanupMaxRetries
                /\ cleanupResult = "False"

\* C28 witness: the folder was absent in all three passes and the call
\* returned False.
CleanupReturnValueWitness ==
    /\ rmLog = <<"absent", "absent", "absent">>
    /\ cpc = "done"
    /\ cleanupResult = "False"
    /\ backoffLog = <<>>
    /\ handleWaits = 0

(***************************************************************************)
(*              Claims: run_pipeline and the cleanup executor              *)
(***************************************************************************)

\* no cleanup_task is waiting for a worker or running towards its end
Quiescent == \A k \in 1..MaxUsers : task[k] \in {"none", "done", "stuck"}

\* C11: a cleanup task that is still unfinished after the 30 time units of
\* its future.result call is reported as a timeout, and the shutdown that
\* follows completes: once the await loop is over and no other task has
\* anything left to do, shutdown(wait=True) returns.  It does not when the
\* task that timed out never finishes.
ShutdownCompletesAfterTimeout ==
    (/\ ppc = "shutdown"
     /\ Quiescent
     /\ \E j \in 1..Len(observed) : observed[j] = "timeout")
        => ENABLED ShutdownGraceful

\* C13: whatever the cleanup tasks did, run_pipeline reaches its completion:
\* once every future has been awaited and the workers have nothing left to
\* do, run_pipeline has completed or its next statement can be taken.
\* Fails with a task that never finishes, as C11 does.
CleanupNeverFailsPipeline ==
    (/\ Len(cleanup_futures) > 0
     /\ Len(observed) = Len(cleanup_futures)
     /\ Quiescent)
        => \/ ppc \in {"completed", "destroyed"}
           \/ ENABLED (ShutdownGraceful \/ Destructor)

\* C14: at most PoolSize cleanup tasks hold a worker at any time and a
\* queued task is started only while fewer do; the finally block only puts
\* the task into the queue, appends its future and moves on to the next
\* user or to the await loop, whatever state the other tasks are in.
PoolBoundedNonBlocking ==
    [][/\ RunningTasks(task') <= PoolSize
       /\ \A k \in 1..MaxUsers :
             (task[k] = "queued" /\ task'[k] = "settle")
                => RunningTasks(task) < PoolSize
       /\ (ppc = "submit" /\ ppc' # "submit") =>
             /\ task' = [task EXCEPT ![ui] = "queued"]
             /\ cleanup_futures' = Append(cleanup_futures, ui)
             /\ ppc' = IF ui < users THEN "user" ELSE "await"
      ]_vars

\* C14 witness: three users have been processed while no teardown has run
\* yet; two tasks hold the workers in their settle delay, the third waits
\* in the queue.
PoolBoundedNonBlockingWitness ==
    /\ ppc = "await"
    /\ Len(processLog) = 3
    /\ task[1] = "settle"
    /\ task[2] = "settle"
    /\ task[3] = "queued"

\* C15: when run_pipeline has ended, by returning or by an exception, and
\* has submitted at least one cleanup task, its await loop has observed
\* every submitted task.  It has not when create_user_folder of a later user
\* raised.
AllTasksObservedBeforeEnd ==
    (/\ ppc \in {"completed", "returned", "raised", "destroyed"}
     /\ Len(cleanup_futures) >= 1)
        => Len(observed) = Len(cleanup_futures)

\* C16: a run of run_pipeline that returned normally, with or without
\* users, has shut the executor down gracefully, and only the destructor
\* adds the immediate shutdown.  The run without users returns before it.
GracefulShutdownOnNormalEnd ==
    /\ ppc \in {"completed", "returned"} => shutdownLog = <<"graceful">>
    /\ ppc \in {"load", "user", "process", "submit", "await", "shutdown"}
          => shutdownLog = <<>>

\* C24: no cleanup task removes a folder that the user being processed has
\* created and is using: a folder never disappears while it holds the files
\* of the user whose try block is running.  With two users of the same
\* sanitized name the task of the first removes the folder of the second.
NoTaskRemovesFolderInUse ==
    [][\A f \in FolderNames :
          (disk[f] # 0 /\ disk'[f] = 0) => disk[f] # UserInProcess
      ]_vars

\* C25: a future that the await loop reported as completed belongs to a
\* task whose teardown succeeded.  cleanup_task drops the value returned by
\* cleanup_user_folder, so the await loop reports every finished task as
\* completed.
FailedTeardownNotCompleted ==
    \A j \in 1..Len(observed) :
        observed[j] = "completed" => taskResult[cleanup_futures[j]] = "True"

\* C27: a cleanup task exists exactly for the users whose folder was created
\* and whose try block has ended, one each and in their order, and when
\* run_pipeline has ended the number of futures awaited is the number of
\* those users.  Nothing is awaited when create_user_folder of a later user
\* raised, as in C15.
OneCleanupPerUserAllAwaited ==
    /\ \A k \in 1..MaxUsers :
          task[k] # "none" => (folder_path[k] # 0 /\ Len(processLog) >= k)
    /\ cleanup_futures = [j \in 1..Len(cleanup_futures) |-> j]
    /\ Len(cleanup_futures) \in {Len(processLog) - 1, Len(processLog)}
    /\ ppc \in {"completed", "raised", "destroyed"} =>
          Len(observed) = Len(processLog)

\* C29: the try block of a user ends in the finally block whether it raised
\* or not, the loop then goes to the next user of the list or, after the
\* last, to the await loop; only the statements before the try block let an
\* exception out of run_pipeline, and a run that reaches the await loop has
\* processed every user.
PerUserIsolation ==
    [][/\ (ppc = "process" /\ ppc' # "process") =>
             /\ ppc' = "submit"
             /\ ui' = ui
             /\ Len(processLog') = ui
       /\ (ppc = "submit" /\ ppc' # "submit") =>
             IF ui < users THEN ppc' = "user" /\ ui' = ui + 1
                           ELSE ppc' = "await"
       /\ (ppc # "raised" /\ ppc' = "raised") => ppc = "user"
       /\ ppc' \in {"await", "shutdown", "completed"} => Len(processLog') = users
      ]_vars

\* C29 witness: the processing of the first of three users raised and the
\* run went on to process the other two and completed.
PerUserIsolationWitness ==
    /\ ppc = "completed"
    /\ users = 3
    /\ Len(processLog) = 3
    /\ processLog[1] = "error"

(***************************************************************************)
(*                  Claims: the 12-hour conversion                         *)
(***************************************************************************)

\* C30: in the 12-hour format the hour handed on lies in 0..23; 12 AM gives
\* 0, 12 PM gives 12, h AM gives h and h PM gives h + 12 for h in 1..11; no
\* other (hour, period) pair gives the same value and every value of 0..23
\* is given by some pair.
HourConversion ==
    (ipc = "done" /\ is_12_hour) =>
        /\ hour_24 \in 0..23
        /\ (hour = 12 /\ period = "AM") => hour_24 = 0
        /\ (hour = 12 /\ period = "PM") => hour_24 = 12
        /\ (hour # 12 /\ period = "AM") => hour_24 = hour
        /\ (hour # 12 /\ period = "PM") => hour_24 = hour + 12
        /\ \A h2 \in HourChoices(TRUE), p2 \in {"AM", "PM"} :
              To24Hour(h2, p2) = hour_24 => (h2 = hour /\ p2 = period)
        /\ {To24Hour(h2, p2) : h2 \in HourChoices(TRUE), p2 \in {"AM", "PM"}} = 0..23

\* C30 witness: 12 AM was entered and became hour 0.
HourConversionWitness ==
    /\ ipc = "done"
    /\ is_12_hour
    /\ hour = 12
    /\ period = "AM"
    /\ hour_24 = 0

====
